---- MODULE Spec2Model ----
(***************************************************************************)
(* Model of the deary entry lifecycle engine (src/src/lib.rs): a journal   *)
(* whose entries are gpg-encrypted files in a git working directory, one   *)
(* commit per change.  The working directory, the git index, the commit    *)
(* history, the temporary plaintext file and the position of the running   *)
(* operation are the state; the editor, gpg, the clock and I/O failures    *)
(* are the environment and are chosen nondeterministically.                *)
(***************************************************************************)
EXTENDS Integers, Sequences, FiniteSets

\* ------------------------------------------------------------------ bounds
MaxCommits == 2    \* no mutating operation starts once the history is this long
MaxCommitsNoFaults == 3   \* the same, in the runs without injected failures
MaxFaults == 1     \* failures the environment injects in one run (I/O errors,
                   \* missing tools, failing editor or gpg runs)

\* --------------------------------------------------------------- constants
GPG_ID_FILE_NAME == <<".", "g", "p", "g", "_", "i", "d">>
\* the version-control directory git2::Repository::init creates in the workdir
GitDir == <<".", "g", "i", "t">>

\* the author configuration the command line passes to init
MainGitConfig == [k \in {"user.name", "user.email"} |->
                    IF k = "user.name" THEN "noname" ELSE "noemail"]
NoConfig == [k \in {"user.name", "user.email"} |-> ""]

\* ------------------------------------------------------------------- names
Digit(d) == CASE d = 0 -> "0" [] d = 1 -> "1" [] d = 2 -> "2" [] d = 3 -> "3"
              [] d = 4 -> "4" [] d = 5 -> "5" [] d = 6 -> "6" [] d = 7 -> "7"
              [] d = 8 -> "8" [] d = 9 -> "9"

RECURSIVE FormatTime(_)
\* dt.format("%Y%m%d-%H%M%S"): the decimal digits of the clock, second resolution
FormatTime(t) == IF t < 10 THEN <<Digit(t)>>
                 ELSE Append(FormatTime(t \div 10), Digit(t % 10))

\* the seconds the clock shows while the model runs
Seconds == {1, 2}
TimeNames == {FormatTime(t) : t \in Seconds}
\* the names a caller passes to read/update/delete
CallerNames == {GPG_ID_FILE_NAME} \cup TimeNames
\* the top-level paths of the working directory
Names == CallerNames \cup {GitDir}

\* as StartsWithDot, but no name is taken to start with "."
StartsWithNothing(n) == FALSE

\* file_name.starts_with(".")
StartsWithDot(n) == Len(n) > 0 /\ n[1] = "."

\* ---------------------------------------------------------------- contents
\* what a path of the working directory (or an index entry, or the temp file) holds
NoFile == [kind |-> "none", rcpt |-> <<>>, data |-> <<>>]
Dir == [kind |-> "dir", rcpt |-> <<>>, data |-> <<>>]
Text(s) == [kind |-> "text", rcpt |-> <<>>, data |-> s]
Cipher(r, s) == [kind |-> "cipher", rcpt |-> r, data |-> s]
\* what a failed gpg --output can leave at the output path
Partial == [kind |-> "partial", rcpt |-> <<>>, data |-> <<>>]

IsFile(c) == c.kind \in {"text", "cipher", "partial"}

\* the plaintexts the user can leave in the editor
Texts == {<<>>, <<"h">>}
\* the recipient identifiers init can be given
GpgIds == {<<"k">>, <<" ", "k">>}
\* the recipients gpg has a public key for
KnownKeys == {<<"k">>}

IsSpace(c) == c = " "

RECURSIVE TrimStart(_)
TrimStart(s) == IF s # <<>> /\ IsSpace(Head(s)) THEN TrimStart(Tail(s)) ELSE s

RECURSIVE TrimEnd(_)
TrimEnd(s) == IF s # <<>> /\ IsSpace(s[Len(s)])
              THEN TrimEnd(SubSeq(s, 1, Len(s) - 1)) ELSE s

\* str::trim
Trim(s) == TrimEnd(TrimStart(s))

\* format!("{:?} {}", change, file)
Message(change, file) == <<change, " ">> \o file

VARIABLES
  wd,        \* working directory: name -> content
  index,     \* the index on disk: name -> staged content (NoFile: not staged)
  commits,   \* the commits, in creation order
  head,      \* the commit HEAD points to (0: unborn, or no repository)
  repo,      \* a repository exists at the path
  config,    \* the repository's configuration
  tmp,       \* the running operation's temporary plaintext file
  clock,     \* the time Utc::now() last showed
  pc,        \* position of the running operation ("idle": none running)
  op,        \* the running (or last) operation and its locals
  env,       \* what the process environment offers the running operation
  ret,       \* what the last operation returned
  trace,     \* the steps the running (or last) operation has executed, in order
  pre,       \* the repository as it was when the operation was called
  okOps,     \* how many init / entry operations have returned Ok
  faults,    \* how many failures the environment has injected
  limit,     \* the history length at which the run stops changing the repository
  edited     \* the last create/update that returned Ok, while the repository stays
             \* as that operation left it

vars == <<wd, index, commits, head, repo, config, tmp, clock, pc, op, env, ret,
          trace, pre, okOps, faults, limit, edited>>

\* gpg, editor: the exit status of the operation's last gpg / editor run (-1: none)
NoOp == [kind |-> "none", name |-> <<>>, gpg_id |-> <<>>, text |-> <<>>,
         change |-> "Add", initial |-> FALSE, gpg |-> -1, editor |-> -1]
NoRet == [status |-> "none", bytes |-> <<>>, names |-> {}]
Ok == [status |-> "ok", bytes |-> <<>>, names |-> {}]
Err == [status |-> "err", bytes |-> <<>>, names |-> {}]
Panic == [status |-> "panic", bytes |-> <<>>, names |-> {}]

EmptyTree == [n \in Names |-> NoFile]

\* the tree of the commit HEAD points to
HeadTree == IF head = 0 THEN EmptyTree ELSE commits[head].tree

Snapshot == [wd |-> wd, index |-> index, head |-> head, ncommits |-> Len(commits),
             tree |-> HeadTree, tmp |-> tmp]
NoSnapshot == [wd |-> EmptyTree, index |-> EmptyTree, head |-> 0, ncommits |-> 0,
               tree |-> EmptyTree, tmp |-> NoFile]
AllTools == [gpg |-> TRUE, editor |-> TRUE]
NoEdit == [kind |-> "none", name |-> <<>>, text |-> <<>>]

Init ==
  /\ wd = EmptyTree
  /\ index = EmptyTree
  /\ commits = <<>>
  /\ head = 0
  /\ repo = FALSE
  /\ config = NoConfig
  /\ tmp = NoFile
  /\ clock = 1
  /\ pc = "idle"
  /\ op = NoOp
  /\ env = AllTools
  /\ ret = NoRet
  /\ trace = <<>>
  /\ pre = NoSnapshot
  /\ okOps = [init |-> 0, entry |-> 0]
  /\ faults = 0
  /\ limit = MaxCommits
  /\ edited = NoEdit

\* the runs in which every tool is there and no I/O fails: the failure budget is
\* spent from the start, and the history may grow longer
InitNoFaults ==
  /\ wd = EmptyTree
  /\ index = EmptyTree
  /\ commits = <<>>
  /\ head = 0
  /\ repo = FALSE
  /\ config = NoConfig
  /\ tmp = NoFile
  /\ clock = 1
  /\ pc = "idle"
  /\ op = NoOp
  /\ env = AllTools
  /\ ret = NoRet
  /\ trace = <<>>
  /\ pre = NoSnapshot
  /\ okOps = [init |-> 0, entry |-> 0]
  /\ faults = MaxFaults
  /\ limit = MaxCommitsNoFaults
  /\ edited = NoEdit

\* the running (or last) operation has executed the step
Ran(step) == \E i \in DOMAIN trace : trace[i] = step

\* ------------------------------------------------------------- environment
\* the outcomes the environment may choose: a failure only while the run's
\* failure budget lasts
Outcomes(S) == IF faults < MaxFaults THEN S ELSE {"ok"}
Flags == IF faults < MaxFaults THEN BOOLEAN ELSE {TRUE}
Injected(bad) == faults' = IF bad THEN faults + 1 ELSE faults
\* one step injects one failure at most
OneFailure(bads) == Cardinality({i \in DOMAIN bads : bads[i]}) <= 1

\* ------------------------------------------------------------ return paths
\* as ReturnErr, but the temporary file is kept past the return
ReturnErrKeepTmp ==
  /\ pc' = "done"
  /\ ret' = Err
  /\ tmp' = tmp

\* an early return with Err: the scoped NamedTempFile is dropped, which removes it
ReturnErr ==
  /\ pc' = "done"
  /\ ret' = Err
  /\ tmp' = NoFile

\* --------------------------------------------------------------------- init
\* Deary::init up to the commit_change call: git2::Repository::init creates the
\* repository (or reopens the one already there), set_config sets the author
\* keys, create_gpg_id_file truncates the recipient file and fills it.
InitRepo ==
  /\ pc = "idle" /\ Len(commits) < limit
  /\ \E g \in GpgIds,
        io \in Outcomes({"ok", "init_err", "config_err", "create_err", "write_err"}) :
       /\ op' = [NoOp EXCEPT !.kind = "init", !.name = GPG_ID_FILE_NAME,
                             !.gpg_id = g, !.change = "Add", !.initial = TRUE]
       /\ Injected(io # "ok")
       /\ repo' = (repo \/ io # "init_err")
       /\ config' = IF io \in {"init_err", "config_err"} THEN config ELSE MainGitConfig
       /\ wd' = CASE io = "init_err" -> wd
                  [] io \in {"config_err", "create_err"} -> [wd EXCEPT ![GitDir] = Dir]
                  [] io = "write_err" ->
                       [wd EXCEPT ![GitDir] = Dir, ![GPG_ID_FILE_NAME] = Text(<<>>)]
                  [] io = "ok" ->
                       [wd EXCEPT ![GitDir] = Dir, ![GPG_ID_FILE_NAME] = Text(g)]
       /\ trace' = CASE io = "init_err" -> <<"repo_init">>
                     [] io = "config_err" -> <<"repo_init", "set_config">>
                     [] OTHER -> <<"repo_init", "set_config", "gpg_id_file">>
       /\ IF io = "ok" THEN pc' = "commit_index" /\ ret' = NoRet
                       ELSE pc' = "done" /\ ret' = Err
  /\ pre' = Snapshot
  /\ env' = AllTools
  /\ UNCHANGED <<index, commits, head, tmp, clock, okOps, limit>>
  /\ edited' = NoEdit

\* ------------------------------------------------------------ commit_change
\* index.add_path / index.remove_path on the in-memory index
StagePath(idx, dir, file, change) ==
  IF change = "Delete" THEN [idx EXCEPT ![file] = NoFile]
                       ELSE [idx EXCEPT ![file] = dir[file]]

\* add_path needs a regular file at the path; remove_path of an unstaged path is Ok
CanStage(dir, file, change) == change = "Delete" \/ IsFile(dir[file])

\* commit_change, first half: open the index, stage the one path, index.write().
CommitChangeIndex ==
  /\ pc = "commit_index"
  /\ trace' = Append(trace, "index")
  /\ \E io \in Outcomes({"ok", "index_err", "write_err"}) :
       /\ Injected(io # "ok")
       /\ IF io = "ok" /\ CanStage(wd, op.name, op.change)
          THEN /\ index' = StagePath(index, wd, op.name, op.change)
               /\ pc' = "commit_tree"
               /\ UNCHANGED ret
          ELSE /\ UNCHANGED index
               /\ pc' = "done" /\ ret' = Err
  /\ UNCHANGED <<wd, commits, head, repo, config, tmp, clock, op, env, pre, okOps, limit, edited>>

\* the parents commit_change hands to repo.commit
ParentCommits(initial, h) == IF initial THEN <<>> ELSE <<h>>

\* repo.signature(): the configured user.name and user.email
HasSignature(cfg) == cfg["user.name"] # "" /\ cfg["user.email"] # ""

\* repo.commit(Some("HEAD"), ..): the reference is only moved when its current tip
\* is the first parent (an unborn HEAD takes any commit)
TipIsFirstParent(h, parents) == h = 0 \/ (parents # <<>> /\ parents[1] = h)

\* as CommitWritten, but the commit is written without its parents
CommitWrittenNoParents(cs, parents, tree, message) ==
  Append(cs, [parents |-> <<>>, tree |-> tree, message |-> message])

\* the history after repo.commit has written the commit object
CommitWritten(cs, parents, tree, message) ==
  Append(cs, [parents |-> parents, tree |-> tree, message |-> message])

\* as CommitResult, but a failed commit_change is not propagated
CommitResultIgnored(good) == Ok

\* what commit_change returns to its caller, which returns it in turn
CommitResult(good) == IF good THEN Ok ELSE Err

\* commit_change, second half: write_tree, find_tree, signature, HEAD as the
\* parent unless initial, repo.commit.
CommitChangeCommit ==
  /\ pc = "commit_tree"
  /\ trace' = Append(trace, "commit")
  /\ \E io \in Outcomes({"ok", "tree_err", "commit_err"}) :
       LET parents == ParentCommits(op.initial, head)
           good == /\ io = "ok"
                   /\ HasSignature(config)
                   /\ (op.initial \/ head # 0)
                   /\ TipIsFirstParent(head, parents)
       IN /\ Injected(io # "ok")
          /\ IF good
             THEN /\ commits' = CommitWritten(commits, parents, index,
                                              Message(op.change, op.name))
                  /\ head' = Len(commits')
             ELSE UNCHANGED <<commits, head>>
          /\ ret' = CommitResult(good)
          /\ pc' = "done"
  /\ UNCHANGED <<wd, index, repo, config, tmp, clock, op, env, pre, okOps, limit, edited>>

\* ---------------------------------------------------------------------- gpg
\* find_gpg: which::which("gpg")
FindGpg(e) == e.gpg

\* find_editor: $EDITOR, or vim in PATH
FindEditor(e) == e.editor

\* as GpgDecrypt, but nothing of the plaintext reaches standard output
GpgDecryptNoOutput(c, keyOk) ==
  IF c.kind = "cipher" /\ keyOk THEN [status |-> 0, stdout |-> <<>>]
                                ELSE [status |-> 2, stdout |-> <<>>]

\* gpg --decrypt path: exit status and standard output.  keyOk: the private key is
\* at hand.  Anything but a ciphertext (no file, a directory, plain text) fails.
GpgDecrypt(c, keyOk) ==
  IF c.kind = "cipher" /\ keyOk THEN [status |-> 0, stdout |-> c.data]
                                ELSE [status |-> 2, stdout |-> <<>>]

\* decrypt_entry: Err when gpg is not found, else Ok(output.stdout)
DecryptEntry(c, e, keyOk) ==
  IF ~FindGpg(e) THEN Err
  ELSE [status |-> "ok", bytes |-> GpgDecrypt(c, keyOk).stdout, names |-> {}]

\* gpg --encrypt --recipient r --output out in: exit status 0 needs the input
\* file, a known recipient and an output path that is not a directory
GpgEncryptOk(in, out, r, keyOk) ==
  keyOk /\ IsFile(in) /\ r \in KnownKeys /\ out.kind # "dir"

\* Deary::gpg_id: File::open and read_to_string need a readable UTF-8 file
GpgIdReadable(dir) == dir[GPG_ID_FILE_NAME].kind = "text"

\* --------------------------------------------------------------- operations
\* create_entry up to the editor: the scoped temporary file and the entry name
\* from the clock.
CreateTmp ==
  /\ pc = "idle" /\ repo /\ Len(commits) < limit
  /\ \E io \in Outcomes({"ok", "tmp_err"}), now \in {t \in Seconds : t >= clock}, g, e \in Flags :
       /\ env' = [gpg |-> g, editor |-> e]
       /\ OneFailure(<<io # "ok", ~g, ~e>>)
       /\ Injected(io # "ok" \/ ~g \/ ~e)
       /\ IF io = "ok"
          THEN /\ tmp' = Text(<<>>)
               /\ clock' = now
               /\ op' = [NoOp EXCEPT !.kind = "create", !.name = FormatTime(now),
                                     !.change = "Add"]
               /\ pc' = "editor" /\ ret' = NoRet
               /\ trace' = <<"tmp_file">>
          ELSE /\ op' = [NoOp EXCEPT !.kind = "create"]
               /\ UNCHANGED clock
               /\ trace' = <<>>
               /\ ReturnErr
  /\ pre' = Snapshot
  /\ UNCHANGED <<wd, index, commits, head, repo, config, okOps, limit>>
  /\ edited' = NoEdit

\* update_entry up to the temporary file: decrypt the stored entry into memory.
DecryptExisting ==
  /\ pc = "idle" /\ repo /\ Len(commits) < limit
  /\ \E name \in CallerNames, g, e, keyOk \in Flags :
       LET en == [gpg |-> g, editor |-> e]
           r == DecryptEntry(wd[name], en, keyOk)
       IN /\ env' = en
          /\ OneFailure(<<~g, ~e, ~keyOk>>)
          /\ Injected(~g \/ ~e \/ ~keyOk)
          /\ trace' = IF FindGpg(en) THEN <<"find_gpg", "gpg_decrypt">>
                                     ELSE <<"find_gpg">>
          /\ op' = [NoOp EXCEPT !.kind = "update", !.name = name, !.text = r.bytes,
                                !.change = "Edit",
                                !.gpg = IF FindGpg(en)
                                        THEN GpgDecrypt(wd[name], keyOk).status ELSE -1]
          /\ IF r.status = "ok"
             THEN pc' = "update_tmp" /\ ret' = NoRet /\ tmp' = NoFile
             ELSE ReturnErr
  /\ pre' = Snapshot
  /\ UNCHANGED <<wd, index, commits, head, repo, config, clock, okOps, limit>>
  /\ edited' = NoEdit

\* update_entry: the scoped temporary file, filled with the decrypted text.
UpdateTmp ==
  /\ pc = "update_tmp"
  /\ \E io \in Outcomes({"ok", "tmp_err", "write_err"}) :
       /\ Injected(io # "ok")
       /\ trace' = IF io = "tmp_err" THEN trace ELSE Append(trace, "tmp_file")
       /\ IF io = "ok" THEN tmp' = Text(op.text) /\ pc' = "editor" /\ UNCHANGED ret
                       ELSE ReturnErr
  /\ UNCHANGED <<wd, index, commits, head, repo, config, clock, op, env, pre, okOps, limit, edited>>

\* as EditorOk, but the editor's exit status is not looked at
EditorOkAnyStatus(found, spawned, success) == found /\ spawned

\* open_editor's result: the editor was found, spawned and exited with success
EditorOk(found, spawned, success) == found /\ spawned /\ success

\* open_editor on the temporary file: the user leaves any text in it.
OpenEditor ==
  /\ pc = "editor"
  /\ \E spawned, success \in Flags, t \in Texts :
       /\ OneFailure(<<~spawned, ~success>>)
       /\ Injected(~spawned \/ ~success)
       /\ trace' = IF FindEditor(env) /\ spawned
                   THEN trace \o <<"find_editor", "editor">>
                   ELSE Append(trace, "find_editor")
       /\ op' = [op EXCEPT !.text = IF FindEditor(env) /\ spawned THEN t ELSE @,
                            !.editor = IF FindEditor(env) /\ spawned
                                       THEN (IF success THEN 0 ELSE 1) ELSE -1]
       /\ IF EditorOk(FindEditor(env), spawned, success)
          THEN tmp' = Text(t) /\ pc' = "encrypt" /\ UNCHANGED ret
          ELSE ReturnErr
  /\ UNCHANGED <<wd, index, commits, head, repo, config, clock, env, pre, okOps, limit, edited>>

\* encrypt_entry(tmp_file.path(), &file_path, &self.gpg_id()?): the recipient is
\* read first, then gpg is looked up and run; its exit status decides the result.
\* A failing gpg may have started to write the output path.
EncryptEntry ==
  /\ pc = "encrypt"
  /\ \E io \in Outcomes({"ok", "read_err", "gpg_err", "gpg_err_partial"}) :
       LET r == Trim(wd[GPG_ID_FILE_NAME].data)
           out == wd[op.name]
           read == io # "read_err" /\ GpgIdReadable(wd)
           done == GpgEncryptOk(tmp, out, r, io = "ok")
       IN /\ Injected(io # "ok")
          /\ op' = [op EXCEPT !.gpg = IF read /\ FindGpg(env)
                                      THEN (IF done THEN 0 ELSE 2) ELSE -1]
          /\ CASE ~read ->
                    /\ trace' = Append(trace, "gpg_id")
                    /\ UNCHANGED wd /\ ReturnErr
               [] read /\ ~FindGpg(env) ->
                    /\ trace' = trace \o <<"gpg_id", "find_gpg">>
                    /\ UNCHANGED wd /\ ReturnErr
               [] read /\ FindGpg(env) /\ done ->
                    /\ trace' = trace \o <<"gpg_id", "find_gpg", "gpg_encrypt">>
                    /\ wd' = [wd EXCEPT ![op.name] = Cipher(r, tmp.data)]
                    /\ pc' = "close" /\ UNCHANGED <<ret, tmp>>
               [] read /\ FindGpg(env) /\ ~done ->
                    /\ trace' = trace \o <<"gpg_id", "find_gpg", "gpg_encrypt">>
                    /\ wd' = IF io = "gpg_err_partial" /\ out.kind # "dir"
                             THEN [wd EXCEPT ![op.name] = Partial] ELSE wd
                    /\ ReturnErr
  /\ UNCHANGED <<index, commits, head, repo, config, clock, env, pre, okOps, limit, edited>>

\* as CloseTmp, but the temporary file is left for the end of the operation
CloseTmpLater ==
  /\ pc = "close"
  /\ trace' = Append(trace, "close")
  /\ pc' = "commit_index"
  /\ UNCHANGED <<wd, index, commits, head, repo, config, tmp, clock, op, env, ret, pre,
                 okOps, faults, limit, edited>>

\* tmp_file.close().unwrap(): removes the temporary file, panics when that fails.
CloseTmp ==
  /\ pc = "close"
  /\ trace' = Append(trace, "close")
  /\ \E io \in Outcomes({"ok", "remove_err"}) :
       /\ Injected(io # "ok")
       /\ IF io = "ok" THEN tmp' = NoFile /\ pc' = "commit_index" /\ UNCHANGED ret
                       ELSE pc' = "done" /\ ret' = Panic /\ UNCHANGED tmp
  /\ UNCHANGED <<wd, index, commits, head, repo, config, clock, op, env, pre, okOps, limit, edited>>

\* as RemoveOk, but a file that is not there is not an error
RemoveOkIfMissing(c, io) == io = "ok" /\ (IsFile(c) \/ c = NoFile)

\* remove_file: Ok only for a regular file that is there
RemoveOk(c, io) == io = "ok" /\ IsFile(c)

\* delete_entry up to the commit_change call: remove_file(file_path)?
RemoveFile ==
  /\ pc = "idle" /\ repo /\ Len(commits) < limit
  /\ \E name \in CallerNames, io \in Outcomes({"ok", "io_err"}) :
       /\ op' = [NoOp EXCEPT !.kind = "delete", !.name = name, !.change = "Delete"]
       /\ Injected(io # "ok")
       /\ IF RemoveOk(wd[name], io)
          THEN /\ wd' = [wd EXCEPT ![name] = NoFile]
               /\ pc' = "commit_index" /\ ret' = NoRet
          ELSE /\ UNCHANGED wd
               /\ pc' = "done" /\ ret' = Err
  /\ pre' = Snapshot
  /\ trace' = <<"remove_file">>
  /\ env' = AllTools
  /\ UNCHANGED <<index, commits, head, repo, config, tmp, clock, okOps, limit>>
  /\ edited' = NoEdit

\* as ReadEntry, but the plaintext is decrypted into a temporary file
ReadEntryIntoTmp ==
  /\ pc = "idle" /\ repo
  /\ \E name \in CallerNames :
       /\ op' = [NoOp EXCEPT !.kind = "read", !.name = name,
                             !.gpg = GpgDecrypt(wd[name], TRUE).status]
       /\ tmp' = Text(GpgDecrypt(wd[name], TRUE).stdout)
       /\ ret' = DecryptEntry(wd[name], AllTools, TRUE)
  /\ trace' = <<"find_gpg", "gpg_decrypt", "tmp_file">>
  /\ pc' = "done"
  /\ pre' = Snapshot
  /\ UNCHANGED <<wd, index, commits, head, repo, config, clock, env, okOps, faults,
                 limit, edited>>

\* read_entry: decrypt_entry on the stored path
ReadEntry ==
  /\ pc = "idle" /\ repo
  /\ \E name \in CallerNames, g, keyOk \in Flags :
       LET en == [gpg |-> g, editor |-> TRUE]
       IN /\ env' = en
          /\ OneFailure(<<~g, ~keyOk>>)
          /\ Injected(~g \/ ~keyOk)
          /\ op' = [NoOp EXCEPT !.kind = "read", !.name = name,
                                !.gpg = IF FindGpg(en)
                                        THEN GpgDecrypt(wd[name], keyOk).status ELSE -1]
          /\ trace' = IF FindGpg(en) THEN <<"find_gpg", "gpg_decrypt">>
                                     ELSE <<"find_gpg">>
          /\ ret' = DecryptEntry(wd[name], en, keyOk)
  /\ pc' = "done"
  /\ pre' = Snapshot
  /\ UNCHANGED <<wd, index, commits, head, repo, config, tmp, clock, okOps, limit, edited>>

\* the names list_entries keeps of a directory listing
ListedNames(dir) == {n \in Names : dir[n] # NoFile /\ ~StartsWithDot(n)}

\* list_entries: read_dir, minus the names that start with "."
ListEntries ==
  /\ pc = "idle" /\ repo
  /\ \E io \in Outcomes({"ok", "read_dir_err"}) :
       /\ Injected(io # "ok")
       /\ ret' = IF io = "ok" THEN [status |-> "ok", bytes |-> <<>>,
                                    names |-> ListedNames(wd)]
                              ELSE Err
  /\ pc' = "done"
  /\ op' = [NoOp EXCEPT !.kind = "list"]
  /\ trace' = <<"read_dir">>
  /\ pre' = Snapshot
  /\ env' = AllTools
  /\ UNCHANGED <<wd, index, commits, head, repo, config, tmp, clock, okOps, limit, edited>>

\* the operation has returned to main, which prints an error if there is one and
\* exits: the process and its locals are gone, the files stay
Exit ==
  /\ pc = "done"
  /\ pc' = "idle"
  /\ op' = NoOp
  /\ env' = AllTools
  /\ ret' = NoRet
  /\ trace' = <<>>
  /\ pre' = NoSnapshot
  /\ okOps' = IF ret.status # "ok" THEN okOps
              ELSE CASE op.kind = "init" -> [okOps EXCEPT !.init = @ + 1]
                     [] op.kind \in {"create", "update", "delete"} ->
                          [okOps EXCEPT !.entry = @ + 1]
                     [] OTHER -> okOps
  /\ UNCHANGED <<wd, index, commits, head, repo, config, tmp, clock, faults, limit>>
  /\ edited' = IF ret.status = "ok" /\ op.kind \in {"create", "update"}
               THEN [kind |-> op.kind, name |-> op.name, text |-> op.text]
               ELSE edited

Next ==
  \/ InitRepo
  \/ CreateTmp
  \/ DecryptExisting
  \/ UpdateTmp
  \/ OpenEditor
  \/ EncryptEntry
  \/ CloseTmp
  \/ RemoveFile
  \/ CommitChangeIndex
  \/ CommitChangeCommit
  \/ ReadEntry
  \/ ListEntries
  \/ Exit

Spec == Init /\ [][Next]_vars

SpecNoFaults == InitNoFaults /\ [][Next]_vars

\* ------------------------------------------------------------------ claims
EntryOps == {"create", "update", "delete"}
\* the non-reserved names
EntryNames == {n \in Names : ~StartsWithDot(n)}
NewestCommit == commits[Len(commits)]

\* C1: every successful commit_change adds exactly one commit, whose only parent is
\* the commit HEAD pointed to before the call (none for the first commit, made by
\* init), and HEAD moves to it; so the history is always one linear chain.
C1_LinearHistory ==
  /\ [](/\ head = Len(commits)
        /\ \A i \in DOMAIN commits :
             commits[i].parents = IF i = 1 THEN <<>> ELSE <<i - 1>>)
  /\ [][(pc = "commit_tree" /\ ret'.status = "ok") =>
          /\ Len(commits') = Len(commits) + 1
          /\ SubSeq(commits', 1, Len(commits)) = commits
          /\ commits'[Len(commits')].parents = IF head = 0 THEN <<>> ELSE <<head>>
          /\ (head = 0 <=> op.kind = "init")
          /\ head' = Len(commits')]_vars

\* an entry operation has returned Ok and its commit is the child of the first one
C1_Witness ==
  /\ pc = "done" /\ op.kind \in EntryOps /\ ret.status = "ok"
  /\ Len(commits) = 2 /\ NewestCommit.parents = <<1>> /\ head = 2

\* C2: between operations the number of commits is the number of init calls that
\* returned Ok (at most one) plus the number of create/update/delete calls that
\* returned Ok; an operation that returns Err has added no commit, and one that
\* returns Ok has added exactly one.
C2_CommitPerSuccess ==
  /\ pc = "idle" =>
       /\ okOps.init <= 1
       /\ (okOps.init = 0 => okOps.entry = 0)
       /\ Len(commits) = okOps.init + okOps.entry
  /\ (pc = "done" /\ op.kind \in EntryOps \cup {"init"}) =>
       Len(commits) = pre.ncommits + (IF ret.status = "ok" THEN 1 ELSE 0)

\* an entry operation failed in commit_change after an earlier one succeeded
C2_Witness ==
  /\ pc = "done" /\ op.kind \in EntryOps /\ ret.status = "err" /\ Ran("commit")
  /\ okOps.init = 1 /\ Len(commits) = 1

\* C3 (as claimed): when create/update/delete, called with the index equal to the
\* tree of the HEAD commit, has returned, the index equals the tree of the HEAD
\* commit again, also when its commit_change failed.
C3_IndexIsHeadTree ==
  (/\ pc = "done" /\ op.kind \in EntryOps /\ op.name \in EntryNames
   /\ pre.head # 0 /\ pre.index = pre.tree) => index = commits[head].tree

\* C4 (as claimed): when create/update/delete, called with the entry files as
\* committed, returns Ok, the entry's file is as committed by a new commit; when
\* it returns Err out of commit_change, the entry files are as in the HEAD commit.
C4_AtomicForCaller ==
  (/\ pc = "done" /\ op.kind \in EntryOps /\ op.name \in EntryNames
   /\ pre.head # 0 /\ \A n \in EntryNames : pre.wd[n] = pre.tree[n]) =>
     /\ ret.status = "ok" =>
          Len(commits) = pre.ncommits + 1 /\ wd[op.name] = HeadTree[op.name]
     /\ (ret.status = "err" /\ Ran("index")) =>
          \A n \in EntryNames : wd[n] = HeadTree[n]

\* C5 (as claimed): when gpg exits non-zero, read_entry returns Err.
C5_ReadSurfacesFailure ==
  (pc = "done" /\ op.kind = "read" /\ pre.head # 0 /\ op.gpg > 0)
     => ret.status = "err"

\* C6: when the editor exits with a non-success status, create_entry or
\* update_entry has returned Err without running gpg --encrypt, the index step or
\* the commit step, and the working directory, the index and the history are as
\* they were when it was called.
C6_EditorFailureStops ==
  (op.kind \in {"create", "update"} /\ op.editor > 0) =>
     /\ pc = "done" /\ ret.status = "err"
     /\ ~Ran("gpg_encrypt") /\ ~Ran("index") /\ ~Ran("commit")
     /\ wd = pre.wd /\ index = pre.index
     /\ Len(commits) = pre.ncommits /\ head = pre.head

\* the editor exited with a failure, in a repository with a commit
C6_Witness ==
  /\ op.kind \in {"create", "update"} /\ op.editor > 0 /\ pc = "done"
  /\ head # 0 /\ op.text # <<>>

\* C7: when create_entry or update_entry has returned, Ok or Err, its temporary
\* plaintext file does not exist.
C7_TmpGoneOnReturn ==
  (pc = "done" /\ op.kind \in {"create", "update"} /\ ret.status \in {"ok", "err"})
     => tmp = NoFile

\* the operation returned Err after its temporary file held the edited text
C7_Witness ==
  /\ pc = "done" /\ op.kind \in {"create", "update"} /\ ret.status = "err"
  /\ Ran("tmp_file") /\ Ran("editor") /\ Ran("gpg_encrypt") /\ op.text # <<>>

\* C8 (as claimed): when gpg is not found, create_entry and update_entry return Err
\* without having created the temporary file or launched the editor.
C8_GpgCheckedFirst ==
  (pc = "done" /\ op.kind \in {"create", "update"} /\ ~FindGpg(env)) =>
     ret.status = "err" /\ ~Ran("tmp_file") /\ ~Ran("editor")

\* C9: delete_entry of a name with no file in the working directory returns Err
\* from remove_file: it never reaches commit_change, and the index, HEAD and the
\* history are as they were.
C9_DeleteMissingFails ==
  (op.kind = "delete" /\ pre.wd[op.name] = NoFile) =>
     /\ pc = "done" /\ ret.status = "err"
     /\ ~Ran("index") /\ ~Ran("commit")
     /\ index = pre.index /\ head = pre.head /\ Len(commits) = pre.ncommits

\* delete_entry of an entry name with no file, in a repository with a commit
C9_Witness ==
  /\ op.kind = "delete" /\ pre.wd[op.name] = NoFile /\ pc = "done"
  /\ op.name \in EntryNames /\ head # 0

\* C10 (as claimed): create/read/update/delete/list, whatever the name, leave the
\* recipient file init wrote as it was: its content, and its index entry.
C10_GpgIdReadOnly ==
  (/\ op.kind \in EntryOps \cup {"read", "list"}
   /\ pre.head # 0 /\ pre.wd[GPG_ID_FILE_NAME].kind = "text") =>
     /\ wd[GPG_ID_FILE_NAME] = pre.wd[GPG_ID_FILE_NAME]
     /\ index[GPG_ID_FILE_NAME] = pre.index[GPG_ID_FILE_NAME]

\* C11 (as claimed): a create_entry that returned Ok took a name no file had, so the
\* names list_entries returns grew by exactly that one, every entry file that was
\* there is as it was, and one commit was added.
C11_CreateAddsOneEntry ==
  (pc = "done" /\ op.kind = "create" /\ ret.status = "ok" /\ pre.head # 0) =>
     /\ pre.wd[op.name] = NoFile
     /\ ListedNames(wd) = ListedNames(pre.wd) \cup {op.name}
     /\ Cardinality(ListedNames(wd)) = Cardinality(ListedNames(pre.wd)) + 1
     /\ \A n \in ListedNames(pre.wd) : wd[n] = pre.wd[n]
     /\ Len(commits) = pre.ncommits + 1

\* C12: an update_entry of an existing entry that returned Ok left the names
\* list_entries returns as they were and added one commit; and while the
\* repository stays as a successful create_entry or update_entry left it, a
\* read_entry of that name in which gpg decrypts returns Ok with exactly the text
\* the editor left in the temporary file.
C12_UpdateReadRoundTrip ==
  /\ (/\ pc = "done" /\ op.kind = "update" /\ ret.status = "ok"
      /\ op.name \in EntryNames /\ IsFile(pre.wd[op.name])) =>
        /\ ListedNames(wd) = ListedNames(pre.wd)
        /\ Len(commits) = pre.ncommits + 1
        /\ wd[op.name].kind = "cipher" /\ wd[op.name].data = op.text
  /\ (/\ pc = "done" /\ op.kind = "read" /\ edited.kind \in {"create", "update"}
      /\ op.name = edited.name /\ op.gpg = 0) =>
        ret.status = "ok" /\ ret.bytes = edited.text

\* an entry was created empty, updated to a text, and read back
C12_Witness ==
  /\ pc = "done" /\ op.kind = "read" /\ op.gpg = 0
  /\ edited.kind = "update" /\ op.name = edited.name /\ edited.name \in EntryNames
  /\ edited.text = <<"h">> /\ ret.bytes = <<"h">>
  /\ Len(commits) = 3 /\ commits[2].tree[op.name].data = <<>>
  /\ commits[3].message = Message("Edit", op.name)

\* C13 (as claimed): init on a path whose repository has a commit returns Err, and
\* the commit count, the recipient file, the configuration and the index are as
\* they were before the call.
C13_ReinitLeavesRepo ==
  (pc = "done" /\ op.kind = "init" /\ pre.head # 0) =>
     /\ ret.status = "err"
     /\ Len(commits) = pre.ncommits /\ head = pre.head
     /\ wd[GPG_ID_FILE_NAME] = pre.wd[GPG_ID_FILE_NAME]
     /\ config = MainGitConfig
     /\ index = pre.index

\* C14 (as claimed): wherever create_entry, update_entry or delete_entry, called
\* with the entry files as committed, stands between two of its steps (where a
\* crash would stop it), HEAD is the commit it was, and every entry file on disk
\* is as the HEAD commit records it.
C14_CrashConsistent ==
  (/\ op.kind \in EntryOps /\ pc \notin {"idle", "done"} /\ op.name \in EntryNames
   /\ pre.head # 0 /\ \A n \in EntryNames : pre.wd[n] = pre.tree[n]) =>
     /\ head = pre.head /\ Len(commits) = pre.ncommits
     /\ \A n \in EntryNames : wd[n] = HeadTree[n]

\* C15: when read_entry or list_entries has returned, Ok or Err, the working
\* directory, the index, HEAD, the history and the temporary file are exactly as
\* they were when it was called, and it has created no temporary file.
C15_QueriesArePure ==
  (pc = "done" /\ op.kind \in {"read", "list"}) =>
     /\ ret.status \in {"ok", "err"}
     /\ wd = pre.wd /\ index = pre.index
     /\ head = pre.head /\ Len(commits) = pre.ncommits /\ HeadTree = pre.tree
     /\ tmp = pre.tmp /\ ~Ran("tmp_file")

\* read_entry of a stored entry failed (gpg is not found)
C15_Witness ==
  /\ pc = "done" /\ op.kind = "read" /\ ret.status = "err"
  /\ head = 2 /\ wd[op.name].kind = "cipher" /\ op.name \in EntryNames

\* C16: when list_entries returns Ok, no name it returns starts with ".", and it
\* returns exactly the top-level names of the working directory (files and
\* directories) that do not start with ".".
C16_ListHidesDotNames ==
  (pc = "done" /\ op.kind = "list" /\ ret.status = "ok") =>
     /\ \A n \in ret.names : n # <<>> /\ Head(n) # "."
     /\ \A n \in Names : (wd[n] # NoFile /\ Head(n) # ".") => n \in ret.names
     /\ \A n \in ret.names : n \in Names /\ wd[n] # NoFile

\* list_entries returned two entries beside the recipient file and the .git directory
C16_Witness ==
  /\ pc = "done" /\ op.kind = "list" /\ ret.status = "ok"
  /\ Cardinality(ret.names) = 2
  /\ wd[GPG_ID_FILE_NAME] # NoFile /\ wd[GitDir] = Dir

\* C17 (as claimed): when gpg --encrypt has failed in create_entry or update_entry,
\* the entry's path in the working directory holds what it held when the
\* operation was called: the previous ciphertext, or no file.
C17_NoPartialWrite ==
  (/\ pc = "done" /\ op.kind \in {"create", "update"} /\ op.name \in EntryNames
   /\ pre.head # 0 /\ Ran("gpg_encrypt") /\ op.gpg > 0) =>
     ret.status = "err" /\ wd[op.name] = pre.wd[op.name]

\* C18 (as claimed): when update_entry of a name with no stored file has returned,
\* it returned Err without having created the temporary file or launched the
\* editor, the name still has no file, and no commit was added.
C18_UpdateMissingFails ==
  (/\ pc = "done" /\ op.kind = "update" /\ op.name \in EntryNames
   /\ pre.head # 0 /\ pre.wd[op.name] = NoFile) =>
     /\ ret.status = "err"
     /\ ~Ran("tmp_file") /\ ~Ran("editor")
     /\ wd[op.name] = NoFile
     /\ Len(commits) = pre.ncommits

\* C19: in create_entry and update_entry, once commit_change has been entered the
\* temporary plaintext file has been closed and does not exist: not while the
\* index is staged, not when the commit exists, not when commit_change has failed.
C19_TmpGoneBeforeCommit ==
  /\ (op.kind \in {"create", "update"} /\ pc \in {"commit_index", "commit_tree"}) =>
        tmp = NoFile /\ Ran("close")
  /\ (op.kind \in {"create", "update"} /\ (Ran("index") \/ Ran("commit"))) =>
        tmp = NoFile /\ Ran("close")
  /\ (op.kind \in {"create", "update"} /\ Len(commits) > pre.ncommits) =>
        tmp = NoFile

\* commit_change failed at the commit after the editor left a text in the file
C19_Witness ==
  /\ pc = "done" /\ op.kind \in {"create", "update"} /\ ret.status = "err"
  /\ Ran("commit") /\ op.text = <<"h">> /\ tmp = NoFile /\ index # pre.index
====
